---- MODULE Spec2Model ----
(***************************************************************************)
(* Model of the task-planning and plan-execution core of the agent:        *)
(*   agi_agent/models/plan.py        PlanStep, ExecutionPlan               *)
(*   agi_agent/core/task_planner.py  TaskPlanner._validate_plan            *)
(*   agi_agent/agent.py              XingAgent._execute_plan,              *)
(*                                   XingAgent.process_request             *)
(*                                                                         *)
(* A plan is a sequence of step records.  Step ids are modelled by natural *)
(* numbers (the step built at list position i has id i); an id of          *)
(* DanglingIds is the id of no step.  depends_on is a sequence, as in the  *)
(* source (a Python list: order and duplicates matter to the validator).   *)
(***************************************************************************)
EXTENDS Integers, Sequences, FiniteSets, TLC

VARIABLES
    steps,          \* ExecutionPlan.steps: the list of PlanStep records
    pc,             \* position of the running flow of control
    idx,            \* _execute_plan: position of the for loop in plan.steps
    safety_result,  \* _execute_plan: the local safety_result
    results,        \* _execute_plan: the local results list
    tools_used,     \* _execute_plan: the local tools_used set
    safety_checks,  \* _execute_plan: the local safety_checks counter
    response,       \* the dict returned by _execute_plan ("none" before it returns)
    dispatched,     \* ids of the steps handed to _execute_step, in call order
    denied,         \* ids of the steps the loop left with `continue`
    ret,            \* position of the step the last get_next_step() call returned
    handed,         \* ids of the steps get_next_step() returned to the driver, in call order
    progress,       \* the dict the last get_progress() call returned
    state,          \* XingAgent.state
    current_task,   \* XingAgent.current_task: the id of the task, NoTask for None
    learning_enabled, \* AgentConfig.learning_enabled
    req,            \* the process_request calls: position, locals, outcome
    conclusion,     \* create_plan: the text reasoning_chain.get_conclusion() returns
    plan_data,      \* create_plan: the local plan_data
    task,           \* a Task object (models/task.py)
    gate,           \* SafetyController: its settings and the step check_action is given
    dfs             \* _check_circular_dependencies: visited, rec_stack, the calls under way

vars == <<steps, pc, idx, safety_result, results, tools_used,
          safety_checks, response, dispatched, denied, ret, handed,
          progress, state, current_task, learning_enabled, req,
          conclusion, plan_data, task, gate, dfs>>

\* the variables of the units modelled on their own
unitVars == <<conclusion, plan_data, task, gate, dfs>>

agentVars == <<state, current_task, learning_enabled, req>>

execVars == <<idx, safety_result, results, tools_used,
              safety_checks, response, dispatched, denied>>

----------------------------------------------------------------------------
(* Bounds *)

MaxSteps == 3       \* steps of a plan given to the validator or to the driver
MaxEdges == 3       \* depends_on entries of such a plan, over all its steps
ApiSteps == 3       \* steps of a plan get_next_step() is called on in any state
ApiEdges == 2       \* depends_on entries of such a plan, over all its steps
ExecSteps == 2      \* steps of a plan taken through create_plan and _execute_plan
ExecEdges == 2      \* depends_on entries of such a plan, over all its steps
MaxTime == 2        \* the clock reads 0..MaxTime ticks
MaxFailures == 4    \* fail() calls on one step
MaxRetries == 3     \* largest max_retries a step is built with
MaxRequests == 2    \* process_request calls on one agent
ProgressSteps == 2  \* steps of a plan get_progress() is called on
ProgressFailures == 1 \* fail() calls on one step of such a plan
CycleSteps == 3     \* steps of a plan whose cycle check is run step by step
CycleEdges == 3     \* depends_on entries of such a plan
AddSteps == 3       \* add_step calls on one plan
AddIds == 2         \* ids the callers of add_step give their steps
MaxParsed == 2      \* step records of a decomposition given as JSON
MaxLines == 3       \* lines of a decomposition given as text

----------------------------------------------------------------------------
(* Values *)

NoStep == 0                     \* "no step": None where the source returns a step
DanglingIds == {0}              \* ids that belong to no step of the plan
NoTool == "None"                \* tool_name = None
\* the tools _initialize_builtin_tools registers
RegisteredTools ==
    {"web_search", "file_read", "file_write", "python_exec", "calculator", "kill_program"}
UnknownTool == "no_such_tool"   \* a tool name that is not registered
ToolNames == {"file_write", "web_search", UnknownTool}
NoResult == "None"              \* PlanStep.result = None
NoError == "None"               \* PlanStep.error = None
DefaultMaxRetries == 3          \* PlanStep.max_retries: int = 3

FirstTime == 0
Times == FirstTime..MaxTime

\* an Optional field: None, or the value it holds
NoValue == <<>>
Some(x) == <<x>>

PENDING == "pending"
IN_PROGRESS == "in_progress"
COMPLETED == "completed"
FAILED == "failed"
SKIPPED == "skipped"
StepStatus == {PENDING, IN_PROGRESS, COMPLETED, FAILED, SKIPPED}

IDLE == "idle"
THINKING == "thinking"
PLANNING == "planning"
EXECUTING == "executing"
LEARNING == "learning"
ERROR == "error"
AgentState == {IDLE, THINKING, PLANNING, EXECUTING, LEARNING, ERROR}

NoTask == 0                     \* current_task = None

\* a step as create_plan builds it and add_step numbers it: the step at list
\* position i has id i and step_number i
PlanStep(id, deps, tool) ==
    [id |-> id, step_number |-> id, depends_on |-> deps, status |-> PENDING,
     tool_name |-> tool, result |-> NoResult, error |-> NoError,
     started_at |-> NoValue, completed_at |-> NoValue, actual_duration |-> NoValue,
     retry_count |-> 0, max_retries |-> DefaultMaxRetries]

----------------------------------------------------------------------------
(* Plans the model starts from: n steps with ids 1..n, and at most e       *)
(* depends_on entries, each the id of a step or a dangling id.  The entries *)
(* are drawn as one list es cut into the steps' lists by owner.             *)

Ids(n) == (1..n) \cup DanglingIds

NonDecreasing(f, k) == \A a, b \in 1..k : a <= b => f[a] <= f[b]

DepsOf(es, owner, k, i) ==
    LET pos == {j \in 1..k : owner[j] = i}
    IN  IF pos = {} THEN <<>>
        ELSE LET lo == CHOOSE j \in pos : \A m \in pos : j <= m
             IN  [j \in 1..Cardinality(pos) |-> es[lo + j - 1]]

\* steps is a plan of at most maxn steps and e depends_on entries, with tool
\* names of tools, statuses of statuses, and one max_retries of retries for
\* all its steps
DrawPlan(maxn, e, tools, statuses, retries) ==
    \E n \in 0..maxn : \E k \in 0..e :
        \E es \in [1..k -> Ids(n)] :
            \E owner \in {f \in [1..k -> 1..n] : NonDecreasing(f, k)} :
                \E t \in [1..n -> tools] : \E st \in [1..n -> statuses] :
                    \E m \in retries :
                        steps = [i \in 1..n |->
                            [PlanStep(i, DepsOf(es, owner, k, i), t[i])
                                EXCEPT !.status = st[i], !.max_retries = m]]

----------------------------------------------------------------------------
(* PlanStep (models/plan.py).  datetime.now() is the wall clock: a call     *)
(* reads a time t that the caller of the method draws.  Times are counted   *)
(* in ticks, TicksPerUnit of them to the unit actual_duration is in.        *)

TicksPerUnit == 2

\* int(x) of a difference of d ticks, in units: int() truncates toward zero
int(d) == IF d >= 0 THEN d \div TicksPerUnit ELSE -((-d) \div TicksPerUnit)

start(step, t) == [step EXCEPT !.status = IN_PROGRESS, !.started_at = Some(t)]

\* actual_duration is set only when started_at is set
complete(step, result, t) ==
    [step EXCEPT !.status = COMPLETED,
                 !.completed_at = Some(t),
                 !.result = result,
                 !.actual_duration =
                     IF step.started_at # NoValue THEN Some(int(t - step.started_at[1]))
                     ELSE @]

\* mutant: a failed step forgets when it was started
fail_clearing_started(step, error) ==
    [step EXCEPT !.status = FAILED, !.error = error, !.retry_count = @ + 1,
                 !.started_at = NoValue]

fail(step, error) ==
    [step EXCEPT !.status = FAILED, !.error = error, !.retry_count = @ + 1]

skip(step) == [step EXCEPT !.status = SKIPPED]

\* mutant: one more attempt is allowed
can_retry_inclusive(step) == step.retry_count <= step.max_retries

can_retry(step) == step.retry_count < step.max_retries

----------------------------------------------------------------------------
(* ExecutionPlan (models/plan.py) *)

\* index of the first step with the given id, NoStep when there is none
RECURSIVE get_step_by_id_from(_, _, _)
get_step_by_id_from(plan, step_id, i) ==
    IF i > Len(plan) THEN NoStep
    ELSE IF plan[i].id = step_id THEN i
    ELSE get_step_by_id_from(plan, step_id, i + 1)

get_step_by_id(plan, step_id) == get_step_by_id_from(plan, step_id, 1)

\* mutant: a dependency id that resolves to no step is passed over
RECURSIVE dependencies_satisfied_skip_missing(_, _, _)
dependencies_satisfied_skip_missing(plan, deps, k) ==
    IF k > Len(deps) THEN TRUE
    ELSE LET dep_step == get_step_by_id(plan, deps[k])
         IN  IF dep_step # NoStep /\ plan[dep_step].status # COMPLETED
             THEN FALSE
             ELSE dependencies_satisfied_skip_missing(plan, deps, k + 1)

\* the for loop of _dependencies_satisfied, from position k of depends_on
RECURSIVE dependencies_satisfied_from(_, _, _)
dependencies_satisfied_from(plan, deps, k) ==
    IF k > Len(deps) THEN TRUE
    ELSE LET dep_step == get_step_by_id(plan, deps[k])
         IN  IF dep_step = NoStep \/ plan[dep_step].status # COMPLETED
             THEN FALSE
             ELSE dependencies_satisfied_from(plan, deps, k + 1)

\* mutant: the dependencies are not looked at
_dependencies_ignored(plan, i) == TRUE

_dependencies_satisfied(plan, i) == dependencies_satisfied_from(plan, plan[i].depends_on, 1)

\* mutant: the pending step with satisfied dependencies that has the lowest
\* step_number
get_next_step_by_number(plan, i) ==
    LET c == {j \in i..Len(plan) :
                 plan[j].status = PENDING /\ _dependencies_satisfied(plan, j)}
    IN  IF c = {} THEN NoStep
        ELSE CHOOSE j \in c :
                \A m \in c : \/ plan[j].step_number < plan[m].step_number
                              \/ (plan[j].step_number = plan[m].step_number /\ j <= m)

\* index of the step get_next_step() returns, NoStep for None
RECURSIVE get_next_step_from(_, _)
get_next_step_from(plan, i) ==
    IF i > Len(plan) THEN NoStep
    ELSE IF plan[i].status = PENDING /\ _dependencies_satisfied(plan, i) THEN i
    ELSE get_next_step_from(plan, i + 1)

get_next_step(plan) == get_next_step_from(plan, 1)

----------------------------------------------------------------------------
(* Plan validator (core/task_planner.py) *)

HasCycleResult(c, v, r) == [cycle |-> c, visited |-> v, rec_stack |-> r]

RECURSIVE has_cycle(_, _, _, _)
RECURSIVE has_cycle_deps(_, _, _, _, _)

\* the for loop of has_cycle over step.depends_on, from position k
has_cycle_deps(plan, deps, k, visited, rec_stack) ==
    IF k > Len(deps) THEN HasCycleResult(FALSE, visited, rec_stack)
    ELSE LET dep_id == deps[k]
         IN  IF dep_id \notin visited
             THEN LET r == has_cycle(plan, dep_id, visited, rec_stack)
                  IN  IF r.cycle THEN r
                      ELSE has_cycle_deps(plan, deps, k + 1, r.visited, r.rec_stack)
             ELSE IF dep_id \in rec_stack
                  THEN HasCycleResult(TRUE, visited, rec_stack)
                  ELSE has_cycle_deps(plan, deps, k + 1, visited, rec_stack)

has_cycle(plan, step_id, visited, rec_stack) ==
    LET v1 == visited \cup {step_id}
        r1 == rec_stack \cup {step_id}
        step == get_step_by_id(plan, step_id)
    IN  IF step = NoStep
        THEN HasCycleResult(FALSE, v1, r1 \ {step_id})
        ELSE LET r == has_cycle_deps(plan, plan[step].depends_on, 1, v1, r1)
             IN  IF r.cycle THEN r
                 ELSE HasCycleResult(FALSE, r.visited, r.rec_stack \ {step_id})

\* mutant: the search is started from the first step of the list only
check_circular_first_only(plan, i, visited) ==
    IF i > Len(plan) THEN FALSE
    ELSE has_cycle(plan, plan[i].id, visited, {}).cycle

\* the loop over plan.steps, from position i: TRUE when ValueError is raised
RECURSIVE check_circular_from(_, _, _)
check_circular_from(plan, i, visited) ==
    IF i > Len(plan) THEN FALSE
    ELSE IF plan[i].id \in visited THEN check_circular_from(plan, i + 1, visited)
    ELSE LET r == has_cycle(plan, plan[i].id, visited, {})
         IN  IF r.cycle THEN TRUE
             ELSE check_circular_from(plan, i + 1, r.visited)

_check_circular_dependencies(plan) == check_circular_from(plan, 1, {})

\* list.remove(x): the list without its first element equal to x
RECURSIVE list_remove(_, _)
list_remove(list, x) ==
    IF list = <<>> THEN <<>>
    ELSE IF Head(list) = x THEN Tail(list)
    ELSE <<Head(list)>> \o list_remove(Tail(list), x)

\* `for dep_id in step.depends_on` with the list mutated by the body: the
\* iterator reads position k (1-based here) of the list as it is now
RECURSIVE validate_deps_of(_, _, _)
validate_deps_of(deps, k, step_ids) ==
    IF k > Len(deps) THEN deps
    ELSE IF deps[k] \notin step_ids
         THEN validate_deps_of(list_remove(deps, deps[k]), k + 1, step_ids)
         ELSE validate_deps_of(deps, k + 1, step_ids)

_validate_dependencies(plan) ==
    LET step_ids == {plan[i].id : i \in 1..Len(plan)}
    IN  [i \in 1..Len(plan) |->
            [plan[i] EXCEPT !.depends_on = validate_deps_of(@, 1, step_ids)]]

----------------------------------------------------------------------------
(* _validate_plan, as create_plan calls it on the plan it has built *)

\* the executor and the agent, before anything has run
FreshRun ==
    /\ idx = 0
    /\ safety_result = "none"
    /\ results = <<>>
    /\ tools_used = {}
    /\ safety_checks = 0
    /\ response = "none"
    /\ dispatched = <<>>
    /\ denied = {}
    /\ ret = NoStep
    /\ handed = <<>>
    /\ progress = NoValue
    /\ state = IDLE
    /\ current_task = NoTask
    /\ learning_enabled = TRUE
    /\ req = <<>>

\* everything but the plan, before anything has run
Fresh ==
    /\ FreshRun
    /\ conclusion = NoValue
    /\ plan_data = NoValue
    /\ task = NoValue
    /\ gate = NoValue
    /\ dfs = NoValue

ValInit ==
    /\ DrawPlan(MaxSteps, MaxEdges, {NoTool}, {PENDING}, {DefaultMaxRetries})
    /\ pc = "validate"
    /\ Fresh

\* _check_circular_dependencies raises ValueError: create_plan raises
ValidatePlanRaise ==
    /\ pc = "validate"
    /\ _check_circular_dependencies(steps)
    /\ pc' = "plan_error"
    /\ UNCHANGED <<agentVars, unitVars, progress, steps, execVars, ret, handed>>

\* no cycle found: the dangling-dependency pass runs (the tool availability
\* check and _optimize_plan change nothing) and create_plan returns the plan
ValidatePlanOk ==
    /\ pc = "validate"
    /\ ~_check_circular_dependencies(steps)
    /\ steps' = _validate_dependencies(steps)
    /\ pc' = "validated"
    /\ UNCHANGED <<agentVars, unitVars, progress, execVars, ret, handed>>

ValNext == ValidatePlanRaise \/ ValidatePlanOk

ValidatorSpec == ValInit /\ [][ValNext]_vars

----------------------------------------------------------------------------
(* Plan executor (agent.py) and the collaborators it awaits *)

\* SafetyController.check_action returns a SafetyResult; the executor reads
\* approved and requires_human_approval
SafetyResults == [approved : BOOLEAN, requires_human_approval : BOOLEAN]

\* mutant: the approval channel answers yes
_request_human_approval_yes(step, reason) == TRUE

\* "For now, return False (deny by default)"
_request_human_approval(step, reason) == FALSE

\* ToolIntegrationFramework.execute_tool returns a dict with success True or
\* False (unknown tool, invalid parameters, the tool raised)
\* for a name that is not registered the dict is the "not found" failure,
\* which has no tool_name key
execute_tool(name, ok) ==
    IF name \notin RegisteredTools
    THEN [success |-> FALSE, tool_name |-> NoTool, step_id |-> NoStep]
    ELSE [success |-> ok, tool_name |-> name, step_id |-> NoStep]

\* ReasoningEngine.execute_reasoning_step returns a dict with success True
execute_reasoning_step(step) == [success |-> TRUE, tool_name |-> NoTool, step_id |-> step.id]

\* the values _execute_step can return for a step
_execute_step(step) ==
    IF step.tool_name # NoTool
    THEN {execute_tool(step.tool_name, ok) : ok \in BOOLEAN}
    ELSE {execute_reasoning_step(step)}

\* sum(1 for step in self.steps if step.status == status), from position i
RECURSIVE count_status(_, _, _)
count_status(plan, status, i) ==
    IF i > Len(plan) THEN 0
    ELSE (IF plan[i].status = status THEN 1 ELSE 0) + count_status(plan, status, i + 1)

\* mutant: skipped steps are counted as completed
get_progress_skipped_done(plan) ==
    LET total_steps == Len(plan)
        completed_steps == count_status(plan, COMPLETED, 1) + count_status(plan, SKIPPED, 1)
        failed_steps == count_status(plan, FAILED, 1)
    IN  [total_steps |-> total_steps,
         completed_steps |-> completed_steps,
         failed_steps |-> failed_steps,
         progress_percentage |->
            IF total_steps > 0
            THEN [num |-> completed_steps * 100, den |-> total_steps]
            ELSE [num |-> 0, den |-> 1]]

\* ExecutionPlan.get_progress, without current_step; the percentage
\* completed_steps / total_steps * 100 is kept as the fraction it is taken of
get_progress(plan) ==
    LET total_steps == Len(plan)
        completed_steps == count_status(plan, COMPLETED, 1)
        failed_steps == count_status(plan, FAILED, 1)
    IN  [total_steps |-> total_steps,
         completed_steps |-> completed_steps,
         failed_steps |-> failed_steps,
         progress_percentage |->
            IF total_steps > 0
            THEN [num |-> completed_steps * 100, den |-> total_steps]
            ELSE [num |-> 0, den |-> 1]]

\* max_retries of the steps of an executed plan: create_plan leaves the
\* default, a plan built elsewhere may set the field
ExecRetries == {1, DefaultMaxRetries}

Init ==
    /\ DrawPlan(ExecSteps, ExecEdges, {NoTool} \cup ToolNames, {PENDING}, ExecRetries)
    /\ pc = "validate"
    /\ Fresh

\* process_request passes the plan create_plan returned to _execute_plan,
\* which sets up its locals and enters the for loop
ExecutePlanStart ==
    /\ pc = "validated"
    /\ results' = <<>>
    /\ tools_used' = {}
    /\ safety_checks' = 0
    /\ idx' = 1
    /\ pc' = "loop"
    /\ UNCHANGED <<agentVars, unitVars, progress, steps, safety_result, response, dispatched, denied, ret, handed>>

\* mutant: only the gate's approvals are counted
SafetyCheckCountingApprovals(sr) ==
    /\ pc = "loop"
    /\ idx <= Len(steps)
    /\ safety_result' = sr
    /\ safety_checks' = IF sr.approved THEN safety_checks + 1 ELSE safety_checks
    /\ IF ~sr.approved
          /\ (~sr.requires_human_approval
              \/ ~_request_human_approval(steps[idx], "reason"))
       THEN /\ denied' = denied \cup {steps[idx].id}
            /\ idx' = idx + 1
            /\ pc' = "loop"
       ELSE /\ pc' = "execute_step"
            /\ UNCHANGED <<denied, idx>>
    /\ UNCHANGED <<agentVars, unitVars, progress, steps, results, tools_used, response, dispatched, ret, handed>>

\* one pass of the loop up to the call of _execute_step: the gate is asked
\* about the step at idx and answers sr
SafetyCheck(sr) ==
    /\ pc = "loop"
    /\ idx <= Len(steps)
    /\ safety_result' = sr
    /\ safety_checks' = safety_checks + 1
    /\ IF ~sr.approved
          /\ (~sr.requires_human_approval
              \/ ~_request_human_approval(steps[idx], "reason"))
       THEN \* continue
            /\ denied' = denied \cup {steps[idx].id}
            /\ idx' = idx + 1
            /\ pc' = "loop"
       ELSE /\ pc' = "execute_step"
            /\ UNCHANGED <<denied, idx>>
    /\ UNCHANGED <<agentVars, unitVars, progress, steps, results, tools_used, response, dispatched, ret, handed>>

\* the gate approved the step
SafetyCheckApproved ==
    \E sr \in SafetyResults : sr.approved /\ SafetyCheck(sr)

\* the gate denied the step and asks for human approval
SafetyCheckEscalated ==
    \E sr \in SafetyResults :
        ~sr.approved /\ sr.requires_human_approval /\ SafetyCheck(sr)

\* the gate denied the step outright
SafetyCheckBlocked ==
    \E sr \in SafetyResults :
        ~sr.approved /\ ~sr.requires_human_approval /\ SafetyCheck(sr)

\* _execute_step returns: the rest of the loop body
ExecuteStepReturn ==
    /\ pc = "execute_step"
    /\ \E step_result \in _execute_step(steps[idx]) :
            results' = Append(results, step_result)
    /\ dispatched' = Append(dispatched, steps[idx].id)
    /\ tools_used' = IF steps[idx].tool_name # NoTool
                     THEN tools_used \cup {steps[idx].tool_name}
                     ELSE tools_used
    /\ idx' = idx + 1
    /\ pc' = "loop"
    /\ UNCHANGED <<agentVars, unitVars, progress, steps, safety_result, safety_checks, response, denied, ret, handed>>

\* the awaited collaborator raises: nothing in _execute_plan catches it
\* (execute_tool returns before any call of a tool when the name is unknown)
ExecuteStepRaise ==
    /\ pc = "execute_step"
    /\ steps[idx].tool_name \in {NoTool} \cup RegisteredTools
    /\ dispatched' = Append(dispatched, steps[idx].id)
    /\ pc' = "exec_error"
    /\ UNCHANGED <<agentVars, unitVars, progress, steps, idx, safety_result, results, tools_used, safety_checks,
                   response, denied, ret, handed>>

\* the loop is over: the result dict
ExecutePlanReturn ==
    /\ pc = "loop"
    /\ idx > Len(steps)
    /\ response' = [results |-> results, tools_used |-> tools_used,
                    safety_checks |-> safety_checks, success |-> TRUE]
    /\ pc' = "returned"
    /\ UNCHANGED <<agentVars, unitVars, progress, steps, idx, safety_result, results, tools_used, safety_checks,
                   dispatched, denied, ret, handed>>

Next ==
    \/ ValidatePlanRaise
    \/ ValidatePlanOk
    \/ ExecutePlanStart
    \/ SafetyCheckApproved
    \/ SafetyCheckEscalated
    \/ SafetyCheckBlocked
    \/ ExecuteStepReturn
    \/ ExecuteStepRaise
    \/ ExecutePlanReturn

Spec == Init /\ [][Next]_vars

----------------------------------------------------------------------------
(* get_next_step() on a plan in any state its steps can have been put in:  *)
(* start, complete, fail and skip have no precondition, so every status    *)
(* assignment is one a caller can produce.                                 *)

PlanInit ==
    /\ DrawPlan(ApiSteps, ApiEdges, {NoTool}, StepStatus, {DefaultMaxRetries})
    /\ pc = "plan_api"
    /\ Fresh

\* ExecutionPlan.current_step: the dataclass default None; no statement of
\* the repository assigns the field, so it has this value in every state
current_step == NoStep

GetNextStep ==
    /\ pc = "plan_api"
    /\ ret' = get_next_step(steps)
    /\ pc' = "got_next_step"
    /\ UNCHANGED <<agentVars, unitVars, progress, steps, execVars, handed>>

PlanNext == GetNextStep

PlanSpec == PlanInit /\ [][PlanNext]_vars

----------------------------------------------------------------------------
(* The dependency graph of a plan, for stating the claims: an edge goes    *)
(* from a step to each step one of its depends_on ids resolves to.         *)

DependsOn(plan, i, j) ==
    \E k \in 1..Len(plan[i].depends_on) : get_step_by_id(plan, plan[i].depends_on[k]) = j

\* the positions reachable from i along at least one edge
RECURSIVE ReachFrom(_, _)
ReachFrom(plan, S) ==
    LET T == S \cup {j \in 1..Len(plan) : \E i \in S : DependsOn(plan, i, j)}
    IN  IF T = S THEN S ELSE ReachFrom(plan, T)

Reachable(plan, i) == ReachFrom(plan, {j \in 1..Len(plan) : DependsOn(plan, i, j)})

GraphHasCycle(plan) == \E i \in 1..Len(plan) : i \in Reachable(plan, i)

StepIds(plan) == {plan[i].id : i \in 1..Len(plan)}

Dangling(plan) ==
    \E i \in 1..Len(plan) : \E k \in 1..Len(plan[i].depends_on) :
        plan[i].depends_on[k] \notin StepIds(plan)

----------------------------------------------------------------------------
\* C9: every plan whose dependency graph has a cycle is rejected by
\* _validate_plan with the circular-dependency error: from a cyclic plan the
\* validator's only step is the raise, which leaves the plan untouched and
\* hands nothing on.
C9_CyclicPlanRejected ==
    [][(pc = "validate" /\ GraphHasCycle(steps)) => (pc' = "plan_error" /\ steps' = steps)]_vars

\* a three-step plan rejected for a cycle between its second and third
\* steps, which the search started from the first step does not reach
C9_Witness ==
    /\ pc = "plan_error"
    /\ Len(steps) = 3
    /\ steps[1].depends_on = <<>>
    /\ steps[2].depends_on = <<3>>
    /\ steps[3].depends_on = <<2>>

\* C10: after the validator's dangling-dependency pass every id left in a
\* depends_on list is the id of a step of the plan.
C10_NoDanglingAfterValidation ==
    pc = "validated" => ~Dangling(steps)

----------------------------------------------------------------------------
(* A driver of a valid plan: it asks get_next_step() for a step, starts it *)
(* and completes it, and stops when get_next_step() returns None.  Its     *)
(* clock stands at FirstTime throughout.                                    *)

DriverInit ==
    /\ DrawPlan(MaxSteps, MaxEdges, {NoTool}, {PENDING}, {DefaultMaxRetries})
    /\ ~GraphHasCycle(steps)
    /\ ~Dangling(steps)
    /\ pc = "driver_idle"
    /\ Fresh

DriverGetNext ==
    /\ pc = "driver_idle"
    /\ ret' = get_next_step(steps)
    /\ IF ret' = NoStep
       THEN pc' = "driver_stopped" /\ UNCHANGED handed
       ELSE pc' = "driver_got" /\ handed' = Append(handed, steps[ret'].id)
    /\ UNCHANGED <<agentVars, unitVars, progress, steps, execVars>>

DriverStart ==
    /\ pc = "driver_got"
    /\ steps' = [steps EXCEPT ![ret] = start(@, FirstTime)]
    /\ pc' = "driver_started"
    /\ UNCHANGED <<agentVars, unitVars, progress, execVars, ret, handed>>

DriverComplete ==
    /\ pc = "driver_started"
    /\ steps' = [steps EXCEPT ![ret] = complete(@, "result", FirstTime)]
    /\ pc' = "driver_idle"
    /\ UNCHANGED <<agentVars, unitVars, progress, execVars, ret, handed>>

DriverNext == DriverGetNext \/ DriverStart \/ DriverComplete

DriverSpec == DriverInit /\ [][DriverNext]_vars /\ WF_vars(DriverNext)

----------------------------------------------------------------------------
(* Claims about the executor, the plan and the driver *)

Range(seq) == {seq[k] : k \in 1..Len(seq)}

NonTerminal(step) == step.status \in {PENDING, IN_PROGRESS}

\* some step is not terminal and get_next_step() has none to offer
Blocked(plan) ==
    /\ \E i \in 1..Len(plan) : NonTerminal(plan[i])
    /\ get_next_step(plan) = NoStep

\* C1: a step is handed to _execute_step only when every id of its
\* depends_on is the id of a completed step of the plan.
C1_DispatchOnlyAfterDependencies ==
    pc = "execute_step" => _dependencies_satisfied(steps, idx)

\* C2: the step get_next_step() returns has every depends_on id resolving
\* to a step of the plan whose status is completed.
C2_NextStepHasCompletedDependencies ==
    (pc = "got_next_step" /\ ret # NoStep) =>
        \A k \in 1..Len(steps[ret].depends_on) :
            \E j \in 1..Len(steps) :
                /\ steps[j].id = steps[ret].depends_on[k]
                /\ steps[j].status = COMPLETED

\* the first step is held back by a dangling id, the second is returned
\* because the step it depends on is completed
C2_Witness ==
    /\ pc = "got_next_step"
    /\ Len(steps) = 3
    /\ steps[1].status = PENDING /\ steps[1].depends_on = <<0>>
    /\ steps[2].status = PENDING /\ steps[2].depends_on = <<3>>
    /\ steps[3].status = COMPLETED /\ steps[3].depends_on = <<>>
    /\ ret = 2

PositionIn(seq, x) == CHOOSE k \in 1..Len(seq) : seq[k] = x

\* the driver has stopped, having been handed every step exactly once and
\* each step after the steps it depends on, with every step terminal and
\* get_next_step() returning None
DriverDone ==
    /\ pc = "driver_stopped"
    /\ Len(handed) = Len(steps)
    /\ Range(handed) = StepIds(steps)
    /\ \A i, j \in 1..Len(steps) :
          DependsOn(steps, i, j) =>
              PositionIn(handed, steps[j].id) < PositionIn(handed, steps[i].id)
    /\ \A i \in 1..Len(steps) : ~NonTerminal(steps[i])
    /\ get_next_step(steps) = NoStep

\* C3: on a valid plan the driver is eventually handed every step exactly
\* once, in an order consistent with the dependencies, and get_next_step()
\* then returns None for good.
C3_DriverHandedEveryStepOnce == <>[]DriverDone

\* a plan listed against its dependencies: the first step depends on the
\* third, the third on the second
C3_Witness ==
    /\ DriverDone
    /\ Len(steps) = 3
    /\ steps[1].depends_on = <<3>>
    /\ steps[3].depends_on = <<2>>
    /\ handed = <<2, 3, 1>>

\* C4: the result has success = true exactly when no step is left
\* non-terminal and no step has status failed.
C4_SuccessIffExhaustedWithoutFailure ==
    pc = "returned" =>
        (response.success <=>
            \A i \in 1..Len(steps) : ~NonTerminal(steps[i]) /\ steps[i].status # FAILED)

\* C5: with the default approval channel a step reaches _execute_step only
\* with a SafetyResult that has approved = true, and a step the gate denied
\* is never among the dispatched steps.
C5_DeniedStepNeverDispatched ==
    /\ pc = "execute_step" => safety_result.approved
    /\ \A id \in denied : id \notin Range(dispatched)

\* a denied file_write step, with the step after it dispatched
C5_Witness ==
    /\ pc = "returned"
    /\ Len(steps) = 2
    /\ steps[1].tool_name = "file_write"
    /\ denied = {1}
    /\ dispatched = <<2>>
    /\ "file_write" \notin tools_used

\* C6: a step that depends on a step left undone after a safety denial is
\* never dispatched, and a plan that ends blocked, or with such a step, is
\* reported with success = false.
C6_BlockedPlanNotSuccess ==
    /\ \A i, j \in 1..Len(steps) :
          (steps[j].id \in denied /\ DependsOn(steps, i, j)) =>
              steps[i].id \notin Range(dispatched)
    /\ pc = "returned" =>
          ((\/ Blocked(steps)
            \/ \E i, j \in 1..Len(steps) :
                  steps[j].id \in denied /\ DependsOn(steps, i, j))
           => ~response.success)

\* C7: a step the gate denied, and no human approved, has status skipped.
C7_DeniedStepSkipped ==
    \A i \in 1..Len(steps) : steps[i].id \in denied => steps[i].status = SKIPPED

\* C8: when every step of a valid plan was approved and every dispatch
\* succeeded, every step is completed and holds its result, get_progress()
\* counts all steps completed, and the result has success = true and
\* tools_used equal to the tool names of the plan's tool steps.
C8_AllApprovedAllCompleted ==
    (/\ pc = "returned"
     /\ ~Dangling(steps)
     /\ denied = {}
     /\ \A k \in 1..Len(results) : results[k].success)
    =>
    (/\ \A i \in 1..Len(steps) :
            steps[i].status = COMPLETED /\ steps[i].result # NoResult
     /\ get_progress(steps).completed_steps = get_progress(steps).total_steps
     /\ response.success
     /\ response.tools_used =
            {steps[i].tool_name : i \in {j \in 1..Len(steps) : steps[j].tool_name # NoTool}})

\* the dispatches of the step at position i, and those of them that failed:
\* _execute_step returned a result with success false, or raised
Dispatches(i) == Cardinality({k \in 1..Len(dispatched) : dispatched[k] = steps[i].id})

Failures(i) ==
    Cardinality({k \in 1..Len(results) :
                    dispatched[k] = steps[i].id /\ ~results[k].success})
    + (IF pc = "exec_error" /\ idx = i THEN 1 ELSE 0)

\* C12: a step with max_retries = m >= 1 whose every dispatch fails has
\* retry_count = m and can_retry() false after its m-th failure, can_retry()
\* true after fewer failures, and is never dispatched an (m+1)-th time.
C12_FailuresCountedUpToMaxRetries ==
    \A i \in 1..Len(steps) :
        (steps[i].max_retries >= 1 /\ Failures(i) = Dispatches(i)) =>
            /\ Failures(i) = steps[i].max_retries =>
                  (steps[i].retry_count = steps[i].max_retries /\ ~can_retry(steps[i]))
            /\ Failures(i) < steps[i].max_retries => can_retry(steps[i])
            /\ Dispatches(i) <= steps[i].max_retries

\* the executor is over, by returning or by an exception leaving it
ExecutorOver == pc \in {"returned", "exec_error"}

\* C13: an exception raised while dispatching a step never leaves the
\* executor loop, and when the executor is over every step that does not
\* depend on the step that raised has been presented to the gate and, unless
\* denied, dispatched.
C13_DispatchExceptionContained ==
    /\ pc # "exec_error"
    /\ ExecutorOver =>
          \A i \in 1..Len(steps) :
              (pc = "exec_error" => (i # idx /\ ~DependsOn(steps, i, idx))) =>
                  steps[i].id \in Range(dispatched) \cup denied

\* C14: when dispatching a step raises, the failure is recorded on the step:
\* its status is failed, the error text is stored and retry_count is one
\* more than before.
C14_DispatchExceptionRecorded ==
    pc = "exec_error" =>
        /\ steps[idx].status = FAILED
        /\ steps[idx].error # NoError
        /\ steps[idx].retry_count = 1

\* the step of the plan that was dispatched k-th
DispatchedStep(k) ==
    steps[CHOOSE i \in 1..Len(steps) : steps[i].id = dispatched[k]]

\* C25: a dispatched step that names a tool that is not registered gets a
\* structured failure from the Tool Executor, and the executor makes it a
\* step failure: the step ends with status failed and the plan outcome is
\* not success.
C25_UnknownToolFailsStep ==
    pc = "returned" =>
        \A k \in 1..Len(dispatched) :
            DispatchedStep(k).tool_name \notin {NoTool} \cup RegisteredTools =>
                /\ ~results[k].success
                /\ DispatchedStep(k).status = FAILED
                /\ ~response.success

\* C34: once get_next_step() has returned a step, the plan's current_step
\* is the id of that step.
C34_CurrentStepIsLastSelected ==
    (pc = "got_next_step" /\ ret # NoStep) => current_step = ret

\* C36: a step whose SafetyResult has requires_human_approval = true is
\* dispatched only after the human approval channel was asked about it and
\* returned true.
C36_ApprovalRequiredMeansAsked ==
    (pc = "execute_step" /\ safety_result.requires_human_approval) =>
        /\ ~safety_result.approved
        /\ _request_human_approval(steps[idx], "reason")

\* C21: when the executor returns, safety_checks is the number of gate
\* calls made: one for every step of the plan, each of which was either
\* left undone after the gate's answer or dispatched.
C21_SafetyChecksCountGateCalls ==
    pc = "returned" =>
        /\ response.safety_checks = Len(steps)
        /\ response.safety_checks = Cardinality(denied) + Len(dispatched)

\* two steps presented to the gate, the first denied and the second
\* approved: two checks counted
C21_Witness ==
    /\ pc = "returned"
    /\ Len(steps) = 2
    /\ denied = {1}
    /\ dispatched = <<2>>
    /\ safety_result.approved
    /\ response.safety_checks = 2

----------------------------------------------------------------------------
(* One PlanStep under any caller: start, complete, fail and skip have no   *)
(* precondition in models/plan.py, so each can be called in every state.   *)
(* pc names the method called last ("new": none yet).                      *)

StepInit ==
    /\ \E m \in 0..MaxRetries :
          steps = <<[PlanStep(1, <<>>, NoTool) EXCEPT !.max_retries = m]>>
    /\ pc = "new"
    /\ Fresh

StepStart ==
    /\ \E t \in Times : steps' = [steps EXCEPT ![1] = start(@, t)]
    /\ pc' = "start"
    /\ UNCHANGED <<agentVars, unitVars, progress, execVars, ret, handed>>

StepComplete ==
    /\ \E t \in Times : steps' = [steps EXCEPT ![1] = complete(@, "result", t)]
    /\ pc' = "complete"
    /\ UNCHANGED <<agentVars, unitVars, progress, execVars, ret, handed>>

StepFail ==
    /\ steps[1].retry_count < MaxFailures
    /\ steps' = [steps EXCEPT ![1] = fail(@, "error")]
    /\ pc' = "fail"
    /\ UNCHANGED <<agentVars, unitVars, progress, execVars, ret, handed>>

StepSkip ==
    /\ steps' = [steps EXCEPT ![1] = skip(@)]
    /\ pc' = "skip"
    /\ UNCHANGED <<agentVars, unitVars, progress, execVars, ret, handed>>

StepNext == StepStart \/ StepComplete \/ StepFail \/ StepSkip

StepSpec == StepInit /\ [][StepNext]_vars

----------------------------------------------------------------------------
(* One PlanStep under control logic that dispatches a pending step, records *)
(* the outcome of a dispatch with complete() or fail(), and dispatches a    *)
(* failed step again only when can_retry() is true.                         *)

\* C29: complete(result) on an in_progress step sets status completed,
\* stores the result and records completed_at; actual_duration is set to the
\* time from started_at to completed_at, less than a unit off and never
\* negative,
\* exactly when started_at is set, and stays unset otherwise.
C29_CompleteRecordsDuration ==
    [][(pc' = "complete" /\ steps[1].status = IN_PROGRESS) =>
          /\ steps'[1].status = COMPLETED
          /\ steps'[1].result = "result"
          /\ steps'[1].completed_at # NoValue
          /\ IF steps[1].started_at # NoValue
             THEN /\ steps'[1].actual_duration # NoValue
                  /\ LET d == steps'[1].completed_at[1] - steps[1].started_at[1]
                         a == steps'[1].actual_duration[1]
                     IN  /\ a >= 0
                         /\ (a - 1) * TicksPerUnit < d
                         /\ d < (a + 1) * TicksPerUnit
             ELSE steps'[1].actual_duration = NoValue]_vars

\* C30: fail(error) sets status failed, stores the error text and adds
\* exactly one to retry_count, and leaves started_at, completed_at, result,
\* depends_on and max_retries as they were.
C30_FailFrame ==
    [][pc' = "fail" =>
          /\ steps'[1].status = FAILED
          /\ steps'[1].error = "error"
          /\ steps'[1].retry_count = steps[1].retry_count + 1
          /\ steps'[1].started_at = steps[1].started_at
          /\ steps'[1].completed_at = steps[1].completed_at
          /\ steps'[1].result = steps[1].result
          /\ steps'[1].depends_on = steps[1].depends_on
          /\ steps'[1].max_retries = steps[1].max_retries]_vars

\* a step that was started, completed and then failed twice
C30_Witness ==
    /\ pc = "fail"
    /\ steps[1].status = FAILED
    /\ steps[1].started_at = Some(1)
    /\ steps[1].completed_at = Some(2)
    /\ steps[1].result = "result"
    /\ steps[1].retry_count = 2

RetryStart ==
    /\ \/ steps[1].status = PENDING
       \/ steps[1].status = FAILED /\ can_retry(steps[1])
    /\ \E t \in Times : steps' = [steps EXCEPT ![1] = start(@, t)]
    /\ pc' = "start"
    /\ UNCHANGED <<agentVars, unitVars, progress, execVars, ret, handed>>

RetryComplete ==
    /\ steps[1].status = IN_PROGRESS
    /\ \E t \in Times : steps' = [steps EXCEPT ![1] = complete(@, "result", t)]
    /\ pc' = "complete"
    /\ UNCHANGED <<agentVars, unitVars, progress, execVars, ret, handed>>

RetryFail ==
    /\ steps[1].status = IN_PROGRESS
    /\ steps[1].retry_count < MaxFailures
    /\ steps' = [steps EXCEPT ![1] = fail(@, "error")]
    /\ pc' = "fail"
    /\ UNCHANGED <<agentVars, unitVars, progress, execVars, ret, handed>>

RetryNext == RetryStart \/ RetryComplete \/ RetryFail

RetrySpec == StepInit /\ [][RetryNext]_vars

----------------------------------------------------------------------------
(* Claims about one PlanStep *)

\* C11 as stated: for every max_retries >= 0, under control logic that
\* starts a failed step again only when can_retry() is true, retry_count
\* never exceeds max_retries.
C11_RetryCountWithinMaxRetries ==
    \A i \in 1..Len(steps) : steps[i].retry_count <= steps[i].max_retries

\* C11, amended: the same for every max_retries >= 1.  With max_retries = 0
\* the first dispatch, which is no retry, fails and fail() counts it.
C11_RetryCountWithinPositiveMaxRetries ==
    \A i \in 1..Len(steps) :
        steps[i].max_retries >= 1 => steps[i].retry_count <= steps[i].max_retries

\* a step with max_retries = 2 after its second failed dispatch: can_retry()
\* is false and the control logic cannot start it again
C11_Witness ==
    /\ pc = "fail"
    /\ steps[1].max_retries = 2
    /\ steps[1].retry_count = 2
    /\ steps[1].status = FAILED
    /\ ~can_retry(steps[1])

Terminal(step) == step.status \in {COMPLETED, SKIPPED}

\* C16: start() on a pending or failed step sets status in_progress and
\* records started_at; start() on a completed or skipped step leaves the
\* status as it is (the call fails).
C16_StartRejectedOnTerminalStep ==
    [][pc' = "start" =>
          /\ steps[1].status \in {PENDING, FAILED} =>
                (steps'[1].status = IN_PROGRESS /\ steps'[1].started_at # NoValue)
          /\ Terminal(steps[1]) => steps'[1].status = steps[1].status]_vars

\* C17: once a step's status is completed or skipped, no call of start(),
\* complete(), fail() or skip() changes it.
C17_TerminalStatusIsFinal ==
    [][Terminal(steps[1]) => steps'[1].status = steps[1].status]_vars

----------------------------------------------------------------------------
(* get_progress() on a plan whose steps any caller starts, completes, fails *)
(* and skips, with the clock at FirstTime.  pc tells whether the last call  *)
(* was get_progress(), and whether the one before it was too.               *)

ProgressInit ==
    /\ DrawPlan(ProgressSteps, 0, {NoTool}, {PENDING}, {DefaultMaxRetries})
    /\ pc = "plan_ops"
    /\ Fresh

ProgressStart(i) ==
    /\ steps' = [steps EXCEPT ![i] = start(@, FirstTime)]
    /\ pc' = "plan_ops"
    /\ UNCHANGED <<agentVars, unitVars, progress, execVars, ret, handed>>

ProgressComplete(i) ==
    /\ steps' = [steps EXCEPT ![i] = complete(@, "result", FirstTime)]
    /\ pc' = "plan_ops"
    /\ UNCHANGED <<agentVars, unitVars, progress, execVars, ret, handed>>

ProgressFail(i) ==
    /\ steps[i].retry_count < ProgressFailures
    /\ steps' = [steps EXCEPT ![i] = fail(@, "error")]
    /\ pc' = "plan_ops"
    /\ UNCHANGED <<agentVars, unitVars, progress, execVars, ret, handed>>

ProgressSkip(i) ==
    /\ steps' = [steps EXCEPT ![i] = skip(@)]
    /\ pc' = "plan_ops"
    /\ UNCHANGED <<agentVars, unitVars, progress, execVars, ret, handed>>

GotProgress == {"got_progress", "got_progress_again"}

\* mutant: the call also completes the steps that are in progress
GetProgressCompleting ==
    /\ progress' = Some(get_progress(steps))
    /\ steps' = [i \in 1..Len(steps) |->
                    IF steps[i].status = IN_PROGRESS
                    THEN complete(steps[i], "result", FirstTime) ELSE steps[i]]
    /\ pc' = IF pc \in GotProgress THEN "got_progress_again" ELSE "got_progress"
    /\ UNCHANGED <<agentVars, unitVars, execVars, ret, handed>>

GetProgress ==
    /\ progress' = Some(get_progress(steps))
    /\ pc' = IF pc \in GotProgress THEN "got_progress_again" ELSE "got_progress"
    /\ UNCHANGED <<agentVars, unitVars, steps, execVars, ret, handed>>

ProgressNext ==
    \/ \E i \in 1..Len(steps) :
          ProgressStart(i) \/ ProgressComplete(i) \/ ProgressFail(i) \/ ProgressSkip(i)
    \/ GetProgress

ProgressSpec == ProgressInit /\ [][ProgressNext]_vars

----------------------------------------------------------------------------
(* Claims about get_next_step() and get_progress() *)

\* a pending step whose every depends_on id is the id of a completed step
Candidate(plan, i) ==
    /\ plan[i].status = PENDING
    /\ \A k \in 1..Len(plan[i].depends_on) :
          \E j \in 1..Len(plan) :
              plan[j].id = plan[i].depends_on[k] /\ plan[j].status = COMPLETED

FirstCandidate(plan) ==
    LET c == {i \in 1..Len(plan) : Candidate(plan, i)}
    IN  IF c = {} THEN NoStep ELSE CHOOSE i \in c : \A j \in c : i <= j

\* step numberings: by position (add_step), against position, all 0 (the
\* field's default)
Numberings(n) ==
    {[i \in 1..n |-> i], [i \in 1..n |-> n + 1 - i], [i \in 1..n |-> 0]}

WithStepNumbers(plan, nb) ==
    [i \in 1..Len(plan) |-> [plan[i] EXCEPT !.step_number = nb[i]]]

\* C18: get_next_step() returns the first step in list order that is
\* pending with every depends_on id resolving to a completed step, and None
\* exactly when there is no such step, whatever the steps' step_number.
C18_NextStepIsFirstCandidate ==
    pc = "got_next_step" =>
        /\ ret = FirstCandidate(steps)
        /\ \A nb \in Numberings(Len(steps)) :
              get_next_step(WithStepNumbers(steps, nb)) = ret

\* the third step is returned: the first is completed and the second waits
\* for the third
C18_Witness ==
    /\ pc = "got_next_step"
    /\ Len(steps) = 3
    /\ steps[1].status = COMPLETED
    /\ steps[2].status = PENDING /\ steps[2].depends_on = <<3>>
    /\ steps[3].status = PENDING /\ steps[3].depends_on = <<1>>
    /\ ret = 3

CountWith(plan, status) == Cardinality({i \in 1..Len(plan) : plan[i].status = status})

\* C19: get_progress() reports total_steps = the number of steps,
\* completed_steps and failed_steps = the numbers of completed and of failed
\* steps, and progress_percentage = completed_steps / total_steps x 100, 0
\* for a plan without steps; skipped steps count in total_steps only, and
\* the percentage lies between 0 and 100.
C19_ProgressCounts ==
    pc \in GotProgress =>
        LET p == progress[1]
            pct == p.progress_percentage
        IN  /\ p.total_steps = Len(steps)
            /\ p.completed_steps = CountWith(steps, COMPLETED)
            /\ p.failed_steps = CountWith(steps, FAILED)
            /\ pct.den > 0
            /\ pct.num * Len(steps) = CountWith(steps, COMPLETED) * 100 * pct.den
            /\ Len(steps) = 0 => pct.num = 0
            /\ p.completed_steps + CountWith(steps, SKIPPED) <= p.total_steps
            /\ 0 <= pct.num /\ pct.num <= 100 * pct.den

\* one step of two completed, the other skipped: half done
C19_Witness ==
    /\ pc = "got_progress"
    /\ Len(steps) = 2
    /\ steps[1].status = COMPLETED
    /\ steps[2].status = SKIPPED
    /\ progress[1].total_steps = 2
    /\ progress[1].completed_steps = 1
    /\ progress[1].failed_steps = 0
    /\ progress[1].progress_percentage = [num |-> 100, den |-> 2]

\* C20: a get_progress() call changes no step of the plan, and a call that
\* follows another with no operation between them returns the same dict.
C20_GetProgressReadsOnly ==
    [][pc' \in GotProgress =>
          /\ steps' = steps
          /\ (pc' = "got_progress_again" => progress' = progress)]_vars

\* a second call in a row on a plan with a step in progress
C20_Witness ==
    /\ pc = "got_progress_again"
    /\ Len(steps) = 2
    /\ steps[1].status = COMPLETED
    /\ steps[2].status = IN_PROGRESS
    /\ progress[1].completed_steps = 1

----------------------------------------------------------------------------
(* XingAgent.process_request (agent.py).  Each call is a coroutine that    *)
(* runs from one await to the next; calls on one agent may interleave at   *)
(* their awaits.  The awaited collaborators return or raise: _parse_request *)
(* raises when the context is not JSON-serialisable, create_plan on a       *)
(* cyclic plan, _execute_plan when a dispatch raises; the repository's      *)
(* LearningSystem catches its own exceptions, a substituted one may raise.  *)
(* The task request r creates has id r.                                     *)

\* the exceptions a collaborator raises: Exception() and Exception(text)
Exceptions == {[args |-> <<>>], [args |-> <<"Planning failed">>]}

\* str(e)
str(e) == IF e.args = <<>> THEN "" ELSE e.args[1]

\* AgentResponse(success=True, result=result, task_id=task.id, ...)
SuccessResponse(task_id) ==
    [success |-> TRUE, error |-> NoValue, task_id |-> Some(task_id)]

\* AgentResponse(success=False, error=str(e),
\*               task_id=self.current_task.id if self.current_task else None)
ErrorResponse(e, cur) ==
    [success |-> FALSE, error |-> Some(str(e)),
     task_id |-> IF cur # NoTask THEN Some(cur) ELSE NoValue]

\* a call: task_status is the status of the Task it created, raised_in the
\* await that raised
NewRequest ==
    [pc |-> "new", task |-> NoTask, task_status |-> NoValue, raised |-> NoValue,
     raised_in |-> NoValue, response |-> NoValue]

AgentInit ==
    /\ steps = <<>>
    /\ pc = "agent"
    /\ idx = 0
    /\ safety_result = "none"
    /\ results = <<>>
    /\ tools_used = {}
    /\ safety_checks = 0
    /\ response = "none"
    /\ dispatched = <<>>
    /\ denied = {}
    /\ ret = NoStep
    /\ handed = <<>>
    /\ progress = NoValue
    /\ state = IDLE
    /\ current_task = NoTask
    /\ learning_enabled \in BOOLEAN
    /\ req = [r \in 1..MaxRequests |-> NewRequest]
    /\ conclusion = NoValue
    /\ plan_data = NoValue
    /\ task = NoValue
    /\ gate = NoValue
    /\ dfs = NoValue

planVars == <<steps, pc, execVars, ret, handed, progress, unitVars>>

\* mutant: the handler lets the exception go on to the caller
ExceptHandlerReraises(r, e) ==
    /\ req' = [req EXCEPT ![r] = [@ EXCEPT !.pc = "raised", !.raised = Some(e),
                                           !.raised_in = Some(req[r].pc)]]
    /\ UNCHANGED <<state, current_task, learning_enabled, planVars>>

\* the awaited collaborator raised e in request r: the except block
ExceptHandler(r, e) ==
    /\ state' = ERROR
    /\ req' = [req EXCEPT ![r] = [@ EXCEPT !.pc = "done",
                                           !.raised = Some(e),
                                           !.raised_in = Some(req[r].pc),
                                           !.response = Some(ErrorResponse(e, current_task))]]
    /\ UNCHANGED <<current_task, learning_enabled, planVars>>

\* mutant: the try block ends without clearing current_task
ReturnSuccessKeepingTask(r) ==
    /\ state' = IDLE
    /\ req' = [req EXCEPT ![r] = [@ EXCEPT !.pc = "done",
                                           !.response = Some(SuccessResponse(req[r].task))]]
    /\ UNCHANGED <<current_task, learning_enabled, planVars>>

\* the end of the try block
ReturnSuccess(r) ==
    /\ state' = IDLE
    /\ current_task' = NoTask
    /\ req' = [req EXCEPT ![r] = [@ EXCEPT !.pc = "done",
                                           !.response = Some(SuccessResponse(req[r].task))]]
    /\ UNCHANGED <<learning_enabled, planVars>>

\* the call, up to the await of _parse_request
RequestCall(r) ==
    /\ req[r].pc = "new"
    /\ r > 1 => req[r - 1].pc # "new"
    /\ state' = THINKING
    /\ req' = [req EXCEPT ![r].pc = "parse"]
    /\ UNCHANGED <<current_task, learning_enabled, planVars>>

RequestParsed(r) ==
    /\ req[r].pc = "parse"
    /\ current_task' = r
    /\ state' = PLANNING
    /\ req' = [req EXCEPT ![r] = [@ EXCEPT !.pc = "create_plan", !.task = r,
                                           !.task_status = Some(PENDING)]]
    /\ UNCHANGED <<learning_enabled, planVars>>

RequestParseRaised(r) ==
    /\ req[r].pc = "parse"
    /\ \E e \in Exceptions : ExceptHandler(r, e)

RequestPlanned(r) ==
    /\ req[r].pc = "create_plan"
    /\ state' = EXECUTING
    /\ req' = [req EXCEPT ![r].pc = "execute_plan"]
    /\ UNCHANGED <<current_task, learning_enabled, planVars>>

RequestPlanRaised(r) ==
    /\ req[r].pc = "create_plan"
    /\ \E e \in Exceptions : ExceptHandler(r, e)

RequestExecuted(r) ==
    /\ req[r].pc = "execute_plan"
    /\ IF learning_enabled
       THEN /\ state' = LEARNING
            /\ req' = [req EXCEPT ![r].pc = "learn"]
            /\ UNCHANGED <<current_task, learning_enabled, planVars>>
       ELSE ReturnSuccess(r)

RequestExecuteRaised(r) ==
    /\ req[r].pc = "execute_plan"
    /\ \E e \in Exceptions : ExceptHandler(r, e)

RequestLearned(r) ==
    /\ req[r].pc = "learn"
    /\ ReturnSuccess(r)

RequestLearnRaised(r) ==
    /\ req[r].pc = "learn"
    /\ \E e \in Exceptions : ExceptHandler(r, e)

AgentNext ==
    \E r \in 1..MaxRequests :
        \/ RequestCall(r)
        \/ RequestParsed(r)
        \/ RequestParseRaised(r)
        \/ RequestPlanned(r)
        \/ RequestPlanRaised(r)
        \/ RequestExecuted(r)
        \/ RequestExecuteRaised(r)
        \/ RequestLearned(r)
        \/ RequestLearnRaised(r)

AgentSpec == AgentInit /\ [][AgentNext]_vars

\* C15: process_request never raises to its caller: at the step in which
\* request parsing, planning, execution or learning raises, the call returns
\* a response with success = false whose error is the exception's text, and
\* the agent's state is ERROR.
C15_ProcessRequestReportsFailure ==
    [][\A r \in 1..MaxRequests :
          (req[r].raised = NoValue /\ req'[r].raised # NoValue) =>
              /\ req'[r].pc = "done"
              /\ req'[r].response # NoValue
              /\ ~req'[r].response[1].success
              /\ req'[r].response[1].error = Some(str(req'[r].raised[1]))
              /\ state' = ERROR]_vars

\* planning raised Exception("Planning failed") in the first request
C15_Witness ==
    /\ pc = "agent"
    /\ req[1].pc = "done"
    /\ req[1].task = 1
    /\ req[1].raised = Some([args |-> <<"Planning failed">>])
    /\ req[1].response = Some([success |-> FALSE, error |-> Some("Planning failed"),
                               task_id |-> Some(1)])
    /\ state = ERROR

\* the requests other than r are not running: not called yet, or returned
OthersAtRest(r) ==
    \A q \in 1..MaxRequests \ {r} : req[q].pc \in {"new", "done"}

\* C37: over a sequence of process_request calls, the task_id of a failure
\* response is none or the id of the task that same request created, never
\* the id of a task left by an earlier request.  (A call made while another
\* runs returns the same response as one made after it when the other has
\* returned before this one's failure: the handler reads current_task only.)
C37_FailureCarriesOwnTask ==
    [][\A r \in 1..MaxRequests :
          (/\ OthersAtRest(r)
           /\ req[r].pc # "done"
           /\ req'[r].pc = "done"
           /\ req'[r].raised # NoValue) =>
              req'[r].response[1].task_id \in
                  {NoValue} \cup (IF req'[r].task # NoTask THEN {Some(req'[r].task)}
                                                           ELSE {})]_vars

\* request r returns without an exception: state IDLE, no current task
Ended(r) ==
    /\ req'[r].pc = "done"
    /\ req'[r].raised = NoValue
    /\ req'[r].response # NoValue
    /\ req'[r].response[1].success
    /\ state' = IDLE
    /\ current_task' = NoTask

\* request r returns from the except block: state ERROR
Failed(r) ==
    /\ req'[r].pc = "done"
    /\ req'[r].raised # NoValue
    /\ state' = ERROR

\* the state a step of request r assigns, by the await the request was at
RequestStepInOrder(r) ==
    req'[r].pc # req[r].pc =>
        CASE req[r].pc = "new" ->
                 req'[r].pc = "parse" /\ state' = THINKING
          [] req[r].pc = "parse" ->
                 \/ req'[r].pc = "create_plan" /\ state' = PLANNING
                 \/ Failed(r)
          [] req[r].pc = "create_plan" ->
                 \/ req'[r].pc = "execute_plan" /\ state' = EXECUTING
                 \/ Failed(r)
          [] req[r].pc = "execute_plan" ->
                 \/ learning_enabled /\ req'[r].pc = "learn" /\ state' = LEARNING
                 \/ ~learning_enabled /\ Ended(r)
                 \/ Failed(r)
          [] req[r].pc = "learn" ->
                 Ended(r) \/ Failed(r)
          [] OTHER -> FALSE

\* C39: the agent starts IDLE with no current task; a process_request that
\* raises nowhere sets THINKING, PLANNING, EXECUTING and, exactly when
\* learning is enabled, LEARNING, in that order, and ends with state IDLE and
\* current_task none; one that raises ends with state ERROR; and in state
\* ERROR the next request can be called as in any other state.
C39_AgentStateLifecycle ==
    /\ state = IDLE /\ current_task = NoTask
    /\ [][\A r \in 1..MaxRequests : RequestStepInOrder(r)]_vars
    /\ [](\A r \in 1..MaxRequests :
             (/\ state = ERROR
              /\ req[r].pc = "new"
              /\ (r > 1 => req[r - 1].pc # "new")) => ENABLED RequestCall(r))

\* with learning enabled, the first request failed in planning and the
\* second went through every phase and returned
C39_Witness ==
    /\ pc = "agent"
    /\ learning_enabled
    /\ req[1].pc = "done"
    /\ req[1].raised_in = Some("create_plan")
    /\ req[2].pc = "done"
    /\ req[2].raised = NoValue
    /\ req[2].response = Some(SuccessResponse(2))
    /\ state = IDLE
    /\ current_task = NoTask

\* C40: when two process_request calls interleave at their awaits, while one
\* of them is being planned or executed the agent's state is not IDLE and
\* current_task is not none, and current_task is a request still in progress.
C40_InterleavedCallsKeepTask ==
    (\E r \in 1..MaxRequests : req[r].pc \in {"create_plan", "execute_plan"}) =>
        /\ state # IDLE
        /\ current_task # NoTask
        /\ req[current_task].pc \notin {"new", "done"}

----------------------------------------------------------------------------
(* Plan construction in create_plan (core/task_planner.py): the Reasoner's *)
(* conclusion is parsed by _parse_plan_from_reasoning and the steps are    *)
(* built from plan_data.  A conclusion is None or empty (NoValue), a text  *)
(* that holds no JSON object (no braces, or braces around what json.loads  *)
(* rejects), or a text whose outermost braces hold a JSON object.  The ids *)
(* a decomposition gives in depends_on are the Reasoner's own: they are of *)
(* DanglingIds, since the built steps get fresh uuid4 ids.                 *)

StepTypeValues == {"reasoning", "tool_call", "decision", "validation", "synthesis"}

\* the lines of a text: blank, plain, "- ...", "* ...", "<n>. ..." and
\* "Step <n> ..."
LineValues ==
    {[kind |-> k, n |-> 0] : k \in {"blank", "text", "dash", "star"}}
    \cup {[kind |-> k, n |-> n] : k \in {"num", "step"}, n \in 1..2}

\* estimated_duration=step_data.get("estimated_duration", 60)
DefaultEstimatedDuration == 60

\* an element of the "steps" list of a JSON decomposition: not an object, or
\* an object in which step_type, tool_name, parameters, depends_on and
\* estimated_duration are there or not.  The Reasoner names the records of
\* its decomposition itself: record j is -j here, and a depends_on list that
\* is there holds a link to record 1.  (The records the fallback parser
\* makes have a description, reasoning as step_type and an empty list.)
StepDataValues ==
    {[dict |-> FALSE]}
    \cup [dict : {TRUE},
          description : {NoValue},
          step_type : {NoValue, Some("tool_call"), Some("bogus")},
          tool_name : {NoValue, Some("web_search")},
          parameters : {NoValue, Some("given")},
          depends_on : {NoValue, Some(<<-1>>)},
          estimated_duration : {NoValue, Some(30)}]

SeqsUpTo(S, n) == UNION {[1..k -> S] : k \in 0..n}

\* the value under "steps" of a JSON decomposition is absent, null, a
\* non-empty string, or a list
Conclusions ==
    {NoValue}
    \cup {Some([kind |-> "text", braces |-> b, lines |-> l]) :
             b \in BOOLEAN, l \in SeqsUpTo(LineValues, MaxLines)}
    \cup {Some([kind |-> "json", steps |-> s]) :
             s \in {NoValue, Some([type |-> "null"]), Some([type |-> "string"])}
                   \cup {Some([type |-> "list", items |-> l]) :
                            l \in SeqsUpTo(StepDataValues, MaxParsed)}}

\* the step indicator test of _fallback_parse_plan
is_step_line(line, step_counter) ==
    \/ line.kind = "num" /\ line.n = step_counter
    \/ line.kind = "step" /\ line.n = step_counter
    \/ line.kind \in {"dash", "star"}

\* the description is the line that made the step, and nothing else
fallback_step(line) ==
    [dict |-> TRUE, description |-> Some(<<line>>), step_type |-> Some("reasoning"),
     tool_name |-> NoValue, parameters |-> Some("{}"), depends_on |-> Some(<<>>),
     estimated_duration |-> Some(DefaultEstimatedDuration)]

\* the for loop of _fallback_parse_plan from line i on; cur_step (current_step) is
\* NoValue for None
RECURSIVE fallback_parse_from(_, _, _, _, _)
fallback_parse_from(lines, i, parsed, cur_step, step_counter) ==
    IF i > Len(lines)
    THEN IF cur_step # NoValue THEN Append(parsed, cur_step[1]) ELSE parsed
    ELSE IF lines[i].kind # "blank" /\ is_step_line(lines[i], step_counter)
         THEN fallback_parse_from(lines, i + 1,
                  IF cur_step # NoValue THEN Append(parsed, cur_step[1]) ELSE parsed,
                  Some(fallback_step(lines[i])), step_counter + 1)
         ELSE fallback_parse_from(lines, i + 1, parsed, cur_step, step_counter)

_fallback_parse_plan(lines) ==
    [steps |-> Some([type |-> "list",
                     items |-> fallback_parse_from(lines, 1, <<>>, NoValue, 1)])]

_parse_plan_from_reasoning(c) ==
    IF c = NoValue THEN [steps |-> Some([type |-> "list", items |-> <<>>])]
    ELSE IF c[1].kind = "json" THEN [steps |-> c[1].steps]
    ELSE _fallback_parse_plan(c[1].lines)

\* plan_data.get("steps", []), when it can be iterated
steps_of(data) ==
    IF data.steps = NoValue THEN <<>> ELSE data.steps[1].items

\* the exception the loop over plan_data.get("steps", []) raises, "None" when
\* it raises none: iterating null is a TypeError, .get on an element that is
\* no object (a character of a string too) an AttributeError, StepType() of
\* a value that is no member a ValueError
RECURSIVE step_data_error_from(_, _)
step_data_error_from(items, i) ==
    IF i > Len(items) THEN "None"
    ELSE IF ~items[i].dict THEN "AttributeError"
    ELSE IF items[i].step_type # NoValue /\ items[i].step_type[1] \notin StepTypeValues
         THEN "ValueError"
    ELSE step_data_error_from(items, i + 1)

create_plan_error(data) ==
    IF data.steps = NoValue THEN "None"
    ELSE IF data.steps[1].type = "null" THEN "TypeError"
    ELSE IF data.steps[1].type = "string" THEN "AttributeError"
    ELSE step_data_error_from(data.steps[1].items, 1)

\* mutant: a record without estimated_duration gives a step without one
build_step_without_estimate(step_data, i) ==
    [description |-> IF step_data.description = NoValue
                     THEN <<[kind |-> "step", n |-> i]>> ELSE step_data.description[1],
     step_type |-> IF step_data.step_type = NoValue
                   THEN "reasoning" ELSE step_data.step_type[1],
     parameters |-> IF step_data.parameters = NoValue
                    THEN "{}" ELSE step_data.parameters[1],
     estimated_duration |-> IF step_data.estimated_duration = NoValue
                            THEN 0 ELSE step_data.estimated_duration[1]]
    @@ PlanStep(i,
                IF step_data.depends_on = NoValue THEN <<>> ELSE step_data.depends_on[1],
                IF step_data.tool_name = NoValue THEN NoTool ELSE step_data.tool_name[1])

\* mutant: the step takes the id the decomposition has for its record
build_step_with_record_id(step_data, i) ==
    [description |-> IF step_data.description = NoValue
                     THEN <<[kind |-> "step", n |-> i]>> ELSE step_data.description[1],
     step_type |-> IF step_data.step_type = NoValue
                   THEN "reasoning" ELSE step_data.step_type[1],
     parameters |-> IF step_data.parameters = NoValue
                    THEN "{}" ELSE step_data.parameters[1],
     estimated_duration |-> IF step_data.estimated_duration = NoValue
                            THEN DefaultEstimatedDuration
                            ELSE step_data.estimated_duration[1]]
    @@ [PlanStep(i,
                 IF step_data.depends_on = NoValue THEN <<>> ELSE step_data.depends_on[1],
                 IF step_data.tool_name = NoValue THEN NoTool ELSE step_data.tool_name[1])
           EXCEPT !.id = -i]

\* the PlanStep built from the i-th step record and added to the plan by
\* add_step: no id is passed, so the step has a uuid4 of its own (i here);
\* the default description is "Step <i>", the default parameters {}
build_step(step_data, i) ==
    [description |-> IF step_data.description = NoValue
                     THEN <<[kind |-> "step", n |-> i]>> ELSE step_data.description[1],
     step_type |-> IF step_data.step_type = NoValue
                   THEN "reasoning" ELSE step_data.step_type[1],
     parameters |-> IF step_data.parameters = NoValue
                    THEN "{}" ELSE step_data.parameters[1],
     estimated_duration |-> IF step_data.estimated_duration = NoValue
                            THEN DefaultEstimatedDuration
                            ELSE step_data.estimated_duration[1]]
    @@ PlanStep(i,
                IF step_data.depends_on = NoValue THEN <<>> ELSE step_data.depends_on[1],
                IF step_data.tool_name = NoValue THEN NoTool ELSE step_data.tool_name[1])

PlannerInit ==
    /\ conclusion \in Conclusions
    /\ steps = <<>>
    /\ pc = "parse_plan"
    /\ plan_data = NoValue
    /\ task = NoValue
    /\ gate = NoValue
    /\ dfs = NoValue
    /\ FreshRun

ParsePlanFromReasoning ==
    /\ pc = "parse_plan"
    /\ plan_data' = Some(_parse_plan_from_reasoning(conclusion))
    /\ pc' = "build_plan"
    /\ UNCHANGED <<agentVars, conclusion, task, gate, dfs, steps, execVars, ret, handed, progress>>

\* the loop over the step records ran to its end
CreatePlanSteps ==
    /\ pc = "build_plan"
    /\ create_plan_error(plan_data[1]) = "None"
    /\ steps' = [i \in 1..Len(steps_of(plan_data[1])) |->
                    build_step(steps_of(plan_data[1])[i], i)]
    /\ pc' = "validate"
    /\ UNCHANGED <<agentVars, unitVars, execVars, ret, handed, progress>>

\* the loop raised: create_plan raises
CreatePlanStepsRaise ==
    /\ pc = "build_plan"
    /\ create_plan_error(plan_data[1]) # "None"
    /\ pc' = "plan_error"
    /\ UNCHANGED <<agentVars, unitVars, steps, execVars, ret, handed, progress>>

\* the built plan goes through _validate_plan; no depends_on id of it
\* resolves, so the cycle check does not raise
PlannerNext ==
    \/ ParsePlanFromReasoning
    \/ CreatePlanSteps
    \/ CreatePlanStepsRaise
    \/ ValidatePlanOk

PlannerSpec == PlannerInit /\ [][PlannerNext]_vars

\* C22: whatever text the Reasoner returns, plan construction does not raise
\* because of the decomposition: a text that holds no JSON object goes to
\* the heuristic parser, and create_plan never ends in an exception.
C22_DecompositionNeverRaises ==
    /\ pc # "plan_error"
    /\ (plan_data # NoValue /\ conclusion # NoValue /\ conclusion[1].kind = "text") =>
          plan_data[1] = _fallback_parse_plan(conclusion[1].lines)

\* the value a built step has for a field of its record: the record's when
\* the field is there, the default when it is not
FieldOr(field, default) == IF field = NoValue THEN default ELSE field[1]

\* every failure of the step loop has a cause other than an absent field
RaisedByPresentValue ==
    \/ plan_data[1].steps # NoValue /\ plan_data[1].steps[1].type # "list"
    \/ \E i \in 1..Len(steps_of(plan_data[1])) :
          LET rec == steps_of(plan_data[1])[i]
          IN  \/ ~rec.dict
              \/ rec.step_type # NoValue /\ rec.step_type[1] \notin StepTypeValues

\* C32: the plan create_plan builds has one step per parsed step record, in
\* record order, each with the record's fields where they are present and
\* the defaults where they are absent (step_type reasoning, parameters an
\* empty mapping, depends_on empty, estimated_duration 60); an absent field
\* never makes the construction fail.
C32_StepsBuiltWithDefaults ==
    /\ pc = "validate" =>
          /\ Len(steps) = Len(steps_of(plan_data[1]))
          /\ \A i \in 1..Len(steps) :
                LET rec == steps_of(plan_data[1])[i]
                IN  /\ steps[i].step_type = FieldOr(rec.step_type, "reasoning")
                    /\ steps[i].parameters = FieldOr(rec.parameters, "{}")
                    /\ steps[i].depends_on = FieldOr(rec.depends_on, <<>>)
                    /\ steps[i].estimated_duration = FieldOr(rec.estimated_duration, 60)
                    /\ steps[i].tool_name = FieldOr(rec.tool_name, NoTool)
                    /\ rec.description # NoValue => steps[i].description = rec.description[1]
                    /\ steps[i].step_number = i
    /\ pc = "plan_error" => RaisedByPresentValue

\* two records: one with no field at all, one with every field
C32_Witness ==
    /\ pc = "validate"
    /\ Len(steps) = 2
    /\ conclusion # NoValue
    /\ conclusion[1].kind = "json"
    /\ steps_of(plan_data[1])[1] =
           [dict |-> TRUE, description |-> NoValue, step_type |-> NoValue,
            tool_name |-> NoValue, parameters |-> NoValue, depends_on |-> NoValue,
            estimated_duration |-> NoValue]
    /\ steps[1].estimated_duration = 60 /\ steps[1].step_type = "reasoning"
    /\ steps[2].estimated_duration = 30 /\ steps[2].step_type = "tool_call"
    /\ steps[2].parameters = "given" /\ steps[2].tool_name = "web_search"

\* a line the claim counts as a step boundary
BoundaryLine(line) == line.kind \in {"num", "step", "dash", "star"}

RECURSIVE Descriptions(_)
Descriptions(items) ==
    IF items = <<>> THEN <<>>
    ELSE items[1].description[1] \o Descriptions(Tail(items))

\* the non-blank lines from the first boundary line on
RECURSIVE StepText(_, _)
StepText(lines, started) ==
    IF lines = <<>> THEN <<>>
    ELSE IF lines[1].kind = "blank" \/ (~started /\ ~BoundaryLine(lines[1]))
         THEN StepText(Tail(lines), started)
         ELSE <<lines[1]>> \o StepText(Tail(lines), TRUE)

\* C33: the fallback parser makes exactly one step per step-boundary line,
\* in input order; a step's description is its boundary line followed by the
\* non-blank lines up to the next boundary, so that no continuation text is
\* dropped; each step is reasoning-typed, with a 60-second estimate and no
\* dependencies.
C33_FallbackKeepsEveryLine ==
    (plan_data # NoValue /\ conclusion # NoValue /\ conclusion[1].kind = "text") =>
        LET lines == conclusion[1].lines
            items == steps_of(plan_data[1])
        IN  /\ Len(items) = Len(SelectSeq(lines, BoundaryLine))
            /\ \A i \in 1..Len(items) :
                  /\ BoundaryLine(items[i].description[1][1])
                  /\ \A k \in 2..Len(items[i].description[1]) :
                        ~BoundaryLine(items[i].description[1][k])
                  /\ items[i].step_type = Some("reasoning")
                  /\ items[i].estimated_duration = Some(60)
                  /\ items[i].depends_on = Some(<<>>)
            /\ Descriptions(items) = StepText(lines, FALSE)

\* C38: the steps create_plan builds have ids of their own, so no depends_on
\* id taken from the decomposition resolves to a step of the built plan: a
\* link the decomposition declares between two of its records is no edge of
\* the plan.
C38_DecompositionLinksDangle ==
    pc \in {"validate", "validated"} =>
        \A i \in 1..Len(steps) : \A k \in 1..Len(steps[i].depends_on) :
            get_step_by_id(steps, steps[i].depends_on[k]) = NoStep

\* the second record declares a link to the first
C38_Witness ==
    /\ pc = "validate"
    /\ Len(steps) = 2
    /\ conclusion # NoValue
    /\ conclusion[1].kind = "json"
    /\ steps_of(plan_data[1])[2].depends_on = Some(<<-1>>)
    /\ steps[2].depends_on = <<-1>>
    /\ steps[1].id = 1

----------------------------------------------------------------------------
(* One Task (models/task.py) under any sequence of calls of its methods.   *)
(* datetime.now() is drawn from Times; actual_duration counts minutes, and *)
(* a minute is TicksPerUnit ticks of this specification.                   *)

CANCELLED == "cancelled"

TaskStatus == {PENDING, IN_PROGRESS, COMPLETED, FAILED, CANCELLED}

\* Task(description) created at time t
Task(t) ==
    [status |-> PENDING, created_at |-> t, updated_at |-> t,
     started_at |-> NoValue, completed_at |-> NoValue, result |-> NoValue,
     error_message |-> NoValue, actual_duration |-> NoValue]

TaskInit ==
    /\ task = Task(FirstTime)
    /\ steps = <<>>
    /\ pc = "new"
    /\ conclusion = NoValue
    /\ plan_data = NoValue
    /\ gate = NoValue
    /\ dfs = NoValue
    /\ FreshRun

\* Task.start(): started_at and updated_at are two reads of the clock
TaskStart ==
    /\ \E t \in Times, u \in Times :
          task' = [task EXCEPT !.status = IN_PROGRESS, !.started_at = Some(t),
                               !.updated_at = u]
    /\ pc' = "start"
    /\ UNCHANGED <<agentVars, conclusion, plan_data, gate, dfs, steps, execVars, ret, handed, progress>>

TaskComplete ==
    /\ \E t \in Times, u \in Times :
          task' = [task EXCEPT !.status = COMPLETED, !.completed_at = Some(t),
                               !.updated_at = u, !.result = Some("result"),
                               !.actual_duration =
                                   IF task.started_at # NoValue
                                   THEN Some(int(t - task.started_at[1])) ELSE @]
    /\ pc' = "complete"
    /\ UNCHANGED <<agentVars, conclusion, plan_data, gate, dfs, steps, execVars, ret, handed, progress>>

TaskFail ==
    /\ \E u \in Times :
          task' = [task EXCEPT !.status = FAILED, !.updated_at = u,
                               !.error_message = Some("error")]
    /\ pc' = "fail"
    /\ UNCHANGED <<agentVars, conclusion, plan_data, gate, dfs, steps, execVars, ret, handed, progress>>

TaskCancel ==
    /\ \E u \in Times : task' = [task EXCEPT !.status = CANCELLED, !.updated_at = u]
    /\ pc' = "cancel"
    /\ UNCHANGED <<agentVars, conclusion, plan_data, gate, dfs, steps, execVars, ret, handed, progress>>

TaskNext == TaskStart \/ TaskComplete \/ TaskFail \/ TaskCancel

TaskSpec == TaskInit /\ [][TaskNext]_vars

\* the order of the statuses: pending, then in_progress, then the terminal ones
StatusRank(s) == IF s = PENDING THEN 0 ELSE IF s = IN_PROGRESS THEN 1 ELSE 2

\* C23: under any sequence of start(), complete(), fail() and cancel() a
\* Task's status only moves forward (pending, in_progress, then completed or
\* failed), never leaves completed, failed or cancelled, and cancel() moves
\* the task to cancelled only from a status that is not terminal.
C23_TaskStatusMovesForward ==
    [][task'.status # task.status =>
          /\ StatusRank(task.status) < StatusRank(task'.status)
          /\ task.status \notin {COMPLETED, FAILED, CANCELLED}]_vars

----------------------------------------------------------------------------
(* The safety gate (core/safety_controller.py): one SafetyController, its  *)
(* level changed by update_safety_level and steps handed to check_action.  *)
(* A step is given by what the gate reads of it: tool_name, description    *)
(* (None or a text) and parameters (None, or what the file path and the    *)
(* code in them are like).  An internal error is raised by the code itself *)
(* on a None, or is injected into one of the two calls of the try block.   *)

SafetyLevel == {"low", "medium", "high", "critical"}

GateSteps ==
    [tool_name : {NoTool, "file_write", "python_exec", "web_search"},
     description : {NoValue, Some("text")},
     parameters : {NoValue} \cup
                  {Some(f) : f \in SUBSET {"system_path", "executable", "dangerous_code"}}]

\* base_risk of _assess_tool_risk, by the tests on the tool's name
_assess_tool_risk(tool_name, parameters) ==
    IF tool_name = "file_write"
    THEN IF "executable" \in parameters THEN "high"
         ELSE IF "system_path" \in parameters THEN "critical"
         ELSE "medium"
    ELSE IF tool_name = "python_exec"
    THEN IF "dangerous_code" \in parameters THEN "critical" ELSE "high"
    ELSE IF tool_name = "web_search" THEN "medium"
    ELSE "low"

\* _assess_risk raises: parameters.get / parameters.items() on None,
\* description.lower() on None, or the injected error
assess_risk_raises(step, fault) ==
    \/ fault = "assess_risk"
    \/ step.parameters = NoValue
    \/ step.description = NoValue

\* base_risk of _assess_risk when it returns
_assess_risk(step) ==
    IF step.tool_name # NoTool
    THEN _assess_tool_risk(step.tool_name, step.parameters[1])
    ELSE "low"

_apply_safety_rules(level, auto_approve_safe, step, base_risk) ==
    LET byLevel ==
            IF level = "high" /\ base_risk \in {"high", "critical"}
            THEN [requires |-> TRUE, approved |-> auto_approve_safe]
            ELSE IF level = "critical" /\ base_risk \in {"medium", "high", "critical"}
            THEN [requires |-> TRUE, approved |-> FALSE]
            ELSE [requires |-> FALSE, approved |-> TRUE]
        rules == level \in {"high", "critical"}
        byWrite ==
            IF step.tool_name = "file_write" /\ rules
            THEN [requires |-> TRUE,
                  approved |-> IF ~auto_approve_safe THEN FALSE ELSE byLevel.approved]
            ELSE byLevel
        byExec ==
            IF step.tool_name = "python_exec" /\ rules
            THEN [requires |-> TRUE, approved |-> FALSE]
            ELSE byWrite
    IN [approved |-> byExec.approved,
        requires_human_approval |-> byExec.requires,
        risk_level |-> base_risk]

\* mutant: the handler answers as auto_approve_safe says
check_action_auto_approving(level, auto_approve_safe, step, fault) ==
    IF assess_risk_raises(step, fault) \/ fault = "apply_rules"
    THEN [approved |-> auto_approve_safe, requires_human_approval |-> TRUE,
          risk_level |-> "high"]
    ELSE _apply_safety_rules(level, auto_approve_safe, step, _assess_risk(step))

\* check_action: the try block, and the except Exception handler
check_action(level, auto_approve_safe, step, fault) ==
    IF assess_risk_raises(step, fault) \/ fault = "apply_rules"
    THEN [approved |-> FALSE, requires_human_approval |-> TRUE, risk_level |-> "high"]
    ELSE _apply_safety_rules(level, auto_approve_safe, step, _assess_risk(step))

\* SafetyController(level, auto_approve_safe)
GateInit ==
    /\ \E l \in SafetyLevel, a \in BOOLEAN :
          gate = [safety_level |-> l, auto_approve_safe |-> a,
                  step |-> NoValue, fault |-> "none"]
    /\ steps = <<>>
    /\ pc = "new"
    /\ conclusion = NoValue
    /\ plan_data = NoValue
    /\ task = NoValue
    /\ dfs = NoValue
    /\ FreshRun

\* check_action(step) returns; gate keeps the step and the error of the call
CheckAction ==
    /\ \E step \in GateSteps, fault \in {"none", "assess_risk", "apply_rules"} :
          /\ gate' = [gate EXCEPT !.step = Some(step), !.fault = fault]
          /\ safety_result' =
                 check_action(gate.safety_level, gate.auto_approve_safe, step, fault)
    /\ pc' = "check_action"
    /\ UNCHANGED <<agentVars, conclusion, plan_data, task, dfs, steps, idx, results,
                   tools_used, safety_checks, response, dispatched, denied, ret,
                   handed, progress>>

UpdateSafetyLevel ==
    /\ \E l \in SafetyLevel : gate' = [gate EXCEPT !.safety_level = l]
    /\ pc' = "update_safety_level"
    /\ UNCHANGED <<agentVars, conclusion, plan_data, task, dfs, steps, execVars, ret,
                   handed, progress>>

GateNext == CheckAction \/ UpdateSafetyLevel

GateSpec == GateInit /\ [][GateNext]_vars

\* the last call of check_action met an internal error
GateRaised ==
    /\ pc = "check_action"
    /\ \/ gate.fault # "none"
       \/ gate.step[1].parameters = NoValue
       \/ gate.step[1].description = NoValue

\* C24: when risk assessment or rule application raises inside check_action,
\* check_action returns a result with approved false and
\* requires_human_approval true.
C24_GateFailsSafe ==
    GateRaised =>
        /\ safety_result.approved = FALSE
        /\ safety_result.requires_human_approval = TRUE

C24_Witness ==
    /\ GateRaised
    /\ gate.fault = "apply_rules"
    /\ gate.auto_approve_safe
    /\ gate.safety_level = "low"
    /\ gate.step[1].tool_name = NoTool
    /\ ~safety_result.approved

\* C26: when planning raises during process_request, the task created for
\* the request has status failed by the time the failure is reported to the
\* caller.
C26_PlanningFailureFailsTask ==
    \A r \in 1..MaxRequests :
        (req[r].pc = "done" /\ req[r].raised_in = Some("create_plan")) =>
            req[r].task_status = Some(FAILED)

----------------------------------------------------------------------------
(* _check_circular_dependencies (core/task_planner.py) run step by step.   *)
(* dfs holds the locals of the function and the frames of has_cycle: i is  *)
(* the position of the outer for loop in plan.steps, visited the set       *)
(* shared by all calls, rec_stack the set of the current root's calls,     *)
(* stack the frames of has_cycle (step_id and the position k of its own    *)
(* for loop), and roots the step ids the outer loop has called has_cycle   *)
(* with.  The code is synchronous: a step that can be taken is taken.      *)

CycleInit ==
    /\ DrawPlan(CycleSteps, CycleEdges, {NoTool}, {PENDING}, {DefaultMaxRetries})
    /\ pc = "check_circular"
    /\ dfs = [i |-> 1, visited |-> {}, rec_stack |-> {}, stack |-> <<>>, roots |-> <<>>]
    /\ conclusion = NoValue
    /\ plan_data = NoValue
    /\ task = NoValue
    /\ gate = NoValue
    /\ FreshRun

\* the frame of has_cycle that is running
TopFrame == dfs.stack[Len(dfs.stack)]

\* step.depends_on of the running frame; <<>> when get_step_by_id gave None
TopDeps ==
    IF get_step_by_id(steps, TopFrame.step_id) = NoStep THEN <<>>
    ELSE steps[get_step_by_id(steps, TopFrame.step_id)].depends_on

\* has_cycle(step_id, ...) is entered: the two add() calls
Enter(step_id, rec_stack) ==
    [dfs EXCEPT !.visited = @ \cup {step_id},
                !.rec_stack = rec_stack \cup {step_id},
                !.stack = Append(@, [step_id |-> step_id, k |-> 1])]

\* mutant: only the first step of the list is used as a root
CheckCircularLoopFirstOnly ==
    /\ pc = "check_circular"
    /\ dfs.stack = <<>>
    /\ dfs.i <= Len(steps)
    /\ dfs' = IF dfs.i > 1
              THEN [dfs EXCEPT !.i = @ + 1]
              ELSE [Enter(steps[dfs.i].id, {}) EXCEPT
                        !.i = @ + 1, !.roots = Append(@, steps[dfs.i].id)]
    /\ UNCHANGED <<agentVars, conclusion, plan_data, task, gate, steps, pc, execVars,
                   ret, handed, progress>>

\* one pass of `for step in plan.steps`: a visited step is passed over, any
\* other is handed to has_cycle with a new rec_stack
CheckCircularLoop ==
    /\ pc = "check_circular"
    /\ dfs.stack = <<>>
    /\ dfs.i <= Len(steps)
    /\ dfs' = IF steps[dfs.i].id \in dfs.visited
              THEN [dfs EXCEPT !.i = @ + 1]
              ELSE [Enter(steps[dfs.i].id, {}) EXCEPT
                        !.i = @ + 1, !.roots = Append(@, steps[dfs.i].id)]
    /\ UNCHANGED <<agentVars, conclusion, plan_data, task, gate, steps, pc, execVars,
                   ret, handed, progress>>

\* the outer loop is over: the function returns
CheckCircularReturn ==
    /\ pc = "check_circular"
    /\ dfs.stack = <<>>
    /\ dfs.i > Len(steps)
    /\ pc' = "circular_returned"
    /\ UNCHANGED <<agentVars, unitVars, steps, execVars, ret, handed, progress>>

\* one pass of `for dep_id in step.depends_on` that does not return: a
\* recursive call for a dep_id not in visited, nothing for one in visited
\* that is not in rec_stack
HasCycleDep ==
    /\ pc = "check_circular"
    /\ dfs.stack # <<>>
    /\ TopFrame.k <= Len(TopDeps)
    /\ LET dep_id == TopDeps[TopFrame.k]
           next == [dfs EXCEPT !.stack[Len(dfs.stack)].k = @ + 1]
       IN  /\ dep_id \in dfs.visited => dep_id \notin dfs.rec_stack
           /\ dfs' = IF dep_id \notin dfs.visited
                     THEN [next EXCEPT !.visited = @ \cup {dep_id},
                                       !.rec_stack = @ \cup {dep_id},
                                       !.stack = Append(@, [step_id |-> dep_id, k |-> 1])]
                     ELSE next
    /\ UNCHANGED <<agentVars, conclusion, plan_data, task, gate, steps, pc, execVars,
                   ret, handed, progress>>

\* mutant: a dep_id that is in visited counts as a cycle
HasCycleFoundOnVisited ==
    /\ pc = "check_circular"
    /\ dfs.stack # <<>>
    /\ TopFrame.k <= Len(TopDeps)
    /\ TopDeps[TopFrame.k] \in dfs.visited
    /\ dfs' = [dfs EXCEPT !.stack = <<>>]
    /\ pc' = "circular_raised"
    /\ UNCHANGED <<agentVars, conclusion, plan_data, task, gate, steps, execVars,
                   ret, handed, progress>>

\* dep_id is in visited and in rec_stack: True is returned through every
\* frame and the outer loop raises ValueError
HasCycleFound ==
    /\ pc = "check_circular"
    /\ dfs.stack # <<>>
    /\ TopFrame.k <= Len(TopDeps)
    /\ TopDeps[TopFrame.k] \in dfs.visited
    /\ TopDeps[TopFrame.k] \in dfs.rec_stack
    /\ dfs' = [dfs EXCEPT !.stack = <<>>]
    /\ pc' = "circular_raised"
    /\ UNCHANGED <<agentVars, conclusion, plan_data, task, gate, steps, execVars,
                   ret, handed, progress>>

\* the step is None or its loop is over: rec_stack.remove(step_id) and
\* return False
HasCycleReturn ==
    /\ pc = "check_circular"
    /\ dfs.stack # <<>>
    /\ TopFrame.k > Len(TopDeps)
    /\ dfs' = [dfs EXCEPT !.rec_stack = @ \ {TopFrame.step_id},
                          !.stack = SubSeq(@, 1, Len(@) - 1)]
    /\ UNCHANGED <<agentVars, conclusion, plan_data, task, gate, steps, pc, execVars,
                   ret, handed, progress>>

CycleNext ==
    \/ CheckCircularLoop
    \/ CheckCircularReturn
    \/ HasCycleDep
    \/ HasCycleFound
    \/ HasCycleReturn

CycleSpec == CycleInit /\ [][CycleNext]_vars /\ WF_vars(CycleNext)

\* the cycle check is over
CycleCheckOver == pc \in {"circular_raised", "circular_returned"}

\* C27: cycle detection terminates on every finite plan, by raising or by
\* returning, whatever the plan holds (disconnected components,
\* self-dependencies, dangling ids, duplicate entries); every step not yet
\* visited when the outer loop reaches it is used as a traversal root, so
\* that a check that returns has visited every step.
C27_CycleCheckTerminates ==
    /\ <>CycleCheckOver
    /\ [][\A j \in 1..Len(steps) :
             (dfs.stack = <<>> /\ dfs.i = j /\ dfs'.i = j + 1
              /\ steps[j].id \notin dfs.visited) =>
                 dfs'.roots = Append(dfs.roots, steps[j].id)]_vars
    /\ [](pc = "circular_returned" =>
             \A j \in 1..Len(steps) : steps[j].id \in dfs.visited)

\* a returning check of three steps: a self-dependency is absent, step 1
\* has a dangling and a duplicated entry, steps 2 and 3 are components of
\* their own
C27_Witness ==
    /\ pc = "circular_returned"
    /\ Len(steps) = 3
    /\ steps[1].depends_on = <<0, 0>>
    /\ steps[3].depends_on = <<2>>
    /\ dfs.roots = <<1, 2, 3>>

\* C35: the circular-dependency error is raised only for a plan whose
\* dependency graph has a cycle; no acyclic plan is rejected.
C35_RaisedOnlyForCycle ==
    pc = "circular_raised" => GraphHasCycle(steps)

\* an acyclic plan that is accepted: steps 1 and 2 share the dependency 3,
\* which is listed after them, step 2 has a dangling id as well, and the
\* search is started from steps 1 and 2
C35_Witness ==
    /\ pc = "circular_returned"
    /\ Len(steps) = 3
    /\ steps[1].depends_on = <<3>>
    /\ steps[2].depends_on = <<3, 0>>
    /\ steps[3].depends_on = <<>>
    /\ dfs.roots = <<1, 2>>
    /\ ~GraphHasCycle(steps)

----------------------------------------------------------------------------
(* ExecutionPlan.add_step (models/plan.py) called by any caller: PlanStep  *)
(* takes its id as a constructor argument (uuid4 is only the default), so  *)
(* a caller chooses the ids.  A plan holds references: a step here has a    *)
(* field obj that tells which object it is, and a caller may add an object  *)
(* that is in the plan already.  A step without obj is an object of its own.*)

\* step.step_number = len(self.steps) + 1 is an assignment to the object, so
\* it shows at every position of the list that holds the object
add_step(plan, step) ==
    LET n == Len(plan) + 1
        same(s) == "obj" \in DOMAIN s /\ "obj" \in DOMAIN step /\ s.obj = step.obj
    IN  Append([i \in 1..Len(plan) |->
                   IF same(plan[i]) THEN [plan[i] EXCEPT !.step_number = n] ELSE plan[i]],
               [step EXCEPT !.step_number = n])

AddInit ==
    /\ steps = <<>>
    /\ pc = "new"
    /\ Fresh

AddStep ==
    /\ Len(steps) < AddSteps
    /\ \/ \E id \in 1..AddIds, tool \in {NoTool} \cup ToolNames :
             steps' = add_step(steps, [obj |-> Len(steps) + 1] @@
                                      [PlanStep(id, <<>>, tool) EXCEPT !.step_number = 0])
       \/ \E j \in 1..Len(steps) : steps' = add_step(steps, steps[j])
    /\ pc' = "add_step"
    /\ UNCHANGED <<agentVars, unitVars, execVars, ret, handed, progress>>

AddSpec == AddInit /\ [][AddStep]_vars

\* C28: after any sequence of add_step calls no two steps of the plan have
\* the same id.
C28_StepIdsUnique ==
    \A i, j \in 1..Len(steps) : i # j => steps[i].id # steps[j].id

\* C31: after any sequence of add_step calls on an empty plan the step at
\* list position i has step_number i, and each add_step appends at the end
\* and changes no field of a step already in the plan.
C31_AddStepNumbersAndAppends ==
    /\ \A i \in 1..Len(steps) : steps[i].step_number = i
    /\ [][/\ Len(steps') = Len(steps) + 1
          /\ SubSeq(steps', 1, Len(steps)) = steps]_vars

====
